---- MODULE Spec2Model ----
(***************************************************************************)
(* Model of the site crawler / signal aggregation (Scripts/seo_auditor.py, *)
(* audit_site) and of the opportunity scoring step                         *)
(* (Scripts/prospect_analyzer.py, create_prospect_scoring_v2).             *)
(*                                                                         *)
(* Strings that the code only compares by substring are token sequences:   *)
(* a URL is a sequence of tokens whose concatenation is the URL text, and  *)
(* a pattern occurs in a URL when its tokens are a contiguous run of it.   *)
(* A date string "YYYY-MM-DD" is the triple <<Y, M, D>>; a parsed datetime *)
(* is the number of days since 1970-01-01.                                 *)
(***************************************************************************)
EXTENDS Integers, Sequences, FiniteSets, TLC

\* ------------------------------------------------------------------ bounds
\* Largest page budget of an audit whose pages carry every signal.
MaxBudget == 2
\* Largest page budget of an audit followed for its link graph alone.
MaxCrawlBudget == 3
\* Largest number of internal links extracted from one page.
MaxLinks == 2
\* Largest number of date strings extracted from one page.
MaxDatesPerPage == 1
\* Largest number of rows of the table that is scored.
MaxRows == 2
\* Largest number of datetimes passed to _compute_publication_frequency alone.
MaxDates == 3
MaxHrefs == 2

\* Python None, per type of the value it stands in for
None == "None"
NoUrl == <<>>
NoDate == <<>>
NoDay == -1

\* ------------------------------------------------------------- sequences
Range(s) == {s[i] : i \in 1..Len(s)}

\* `pat in text` for token sequences
Contains(text, pat) ==
  \E i \in 1..(Len(text) - Len(pat) + 1) : SubSeq(text, i, i + Len(pat) - 1) = pat

\* str.rstrip("/")
RECURSIVE RStripSlash(_)
RStripSlash(u) ==
  IF Len(u) > 0 /\ u[Len(u)] = "/" THEN RStripSlash(SubSeq(u, 1, Len(u) - 1)) ELSE u

SetMax(S) == CHOOSE x \in S : \A y \in S : y <= x

\* ----------------------------------------------------------------- dates
IsLeap(y) == (y % 4 = 0 /\ y % 100 # 0) \/ y % 400 = 0

DaysInMonth(y, m) ==
  IF m = 2 THEN (IF IsLeap(y) THEN 29 ELSE 28)
  ELSE IF m \in {4, 6, 9, 11} THEN 30 ELSE 31

\* days since 1970-01-01 of a valid civil date
ToDays(y, m, d) ==
  LET yy  == IF m <= 2 THEN y - 1 ELSE y
      era == yy \div 400
      yoe == yy - era * 400
      mp  == IF m > 2 THEN m - 3 ELSE m + 9
      doy == (153 * mp + 2) \div 5 + d - 1
      doe == yoe * 365 + yoe \div 4 - yoe \div 100 + doy
  IN  era * 146097 + doe - 719468

\* datetime.strftime("%Y-%m-%d") of a day number
Strftime(z0) ==
  LET z   == z0 + 719468
      era == z \div 146097
      doe == z - era * 146097
      yoe == (doe - doe \div 1460 + doe \div 36524 - doe \div 146096) \div 365
      doy == doe - (365 * yoe + yoe \div 4 - yoe \div 100)
      mp  == (5 * doy + 2) \div 153
      d   == doy - (153 * mp + 2) \div 5 + 1
      m   == IF mp < 10 THEN mp + 3 ELSE mp - 9
      y   == yoe + era * 400 + (IF m <= 2 THEN 1 ELSE 0)
  IN  <<y, m, d>>

\* _parse_date: strptime rejects a day the month does not have
_parse_date(ds) ==
  IF ds[3] <= DaysInMonth(ds[1], ds[2]) THEN ToDays(ds[1], ds[2], ds[3]) ELSE NoDay

\* [_parse_date(d) for d in dates if _parse_date(d)]
RECURSIVE ParseAll(_)
ParseAll(dates) ==
  IF dates = <<>> THEN <<>>
  ELSE LET p == _parse_date(Head(dates))
       IN  (IF p = NoDay THEN <<>> ELSE <<p>>) \o ParseAll(Tail(dates))

\* the day on which datetime.now() is read
NowDate == <<2026, 11, 2>>
Now == ToDays(NowDate[1], NowDate[2], NowDate[3])

\* date strings that pages of the modelled sites carry (all match DATE_PATTERN):
\* an impossible calendar day, and posts 364, 729 and 730 days old
DateStrings ==
  { <<2024, 2, 30>>, <<2025, 11, 3>>, <<2024, 11, 3>>, <<2024, 11, 2>> }

\* ------------------------------------------------------------------ URLs
Scheme == <<"https:", "/", "/">>

\* netloc of the audited site: one whose text holds no blog pattern, and
\* "magasin.fr", whose text after "//" starts with "mag"
Hosts == { <<"site.fr">>, <<"mag", "asin.fr">> }

\* values of the site_web column: with and without a trailing slash
InputUrls == UNION { {Scheme \o h, Scheme \o h \o <<"/">>} : h \in Hosts }

\* paths of the pages of a site
Paths == { <<>>, <<"/", "blog">>, <<"/", "News">> }

SiteUrls(root) == {root \o p : p \in Paths}

\* paths of the pages below the home page of a site that is followed for
\* the content of its pages: a structural page, a page below it and an
\* ordinary page
ContentPaths ==
  { <<"/", "contact">>, <<"/", "contact", "/", "equipe">>, <<"/", "produits">> }

ContentUrls(root) == {root \o p : p \in ContentPaths}

\* a blog hosted on another domain, reachable only through a navigation link
ExternalBlog == <<"https:", "/", "/", "blog", ".other.fr">>

\* str.lower() on the tokens
LowerTok(t) == IF t = "News" THEN "news" ELSE IF t = ".PDF" THEN ".pdf" ELSE t
Lower(u) == [i \in 1..Len(u) |-> LowerTok(u[i])]

BLOG_URL_PATTERNS ==
  << <<"/", "blog">>, <<"/", "actualite", "s">>, <<"/", "actualite">>,
     <<"/", "fil-dactualite">>, <<"/", "fil-actualite">>, <<"/", "news">>,
     <<"/", "article", "s">>, <<"/", "article">>, <<"/", "journal">>,
     <<"/", "mag">>, <<"/", "mag", "azine">>, <<"/", "ressources">>,
     <<"/", "publications">>, <<"/", "posts">>, <<"/", "edito">>,
     <<"/", "chroniques">>, <<"/", "insights">>, <<"/", "presse">>,
     <<"/", "communiques">>, <<"/", "breves">>, <<"/", "dossiers">>,
     <<"/", "tribunes">> >>

\* any(pattern in url.lower() for pattern in BLOG_URL_PATTERNS)
IsBlogUrl(u) ==
  \E k \in 1..Len(BLOG_URL_PATTERNS) : Contains(Lower(u), BLOG_URL_PATTERNS[k])

EXCLUDED_FROM_EMPTY_COUNT ==
  { <<"/", "contact">>, <<"/", "mentions-legales">>, <<"/", "mentions_legales">>,
    <<"/", "cgv">>, <<"/", "cgu">>, <<"/", "privacy">>, <<"/", "politique">>,
    <<"/", "politique-de-confidentialite">>, <<"/", "login">>, <<"/", "connexion">> }

\* urlparse(u).path for a URL of the audited site
UrlPath(root, u) == SubSeq(u, Len(root) + 1, Len(u))

IsPrefix(p, s) == Len(p) <= Len(s) /\ SubSeq(s, 1, Len(p)) = p

IsStructural_exact(root, u) ==
  RStripSlash(Lower(UrlPath(root, u))) \in EXCLUDED_FROM_EMPTY_COUNT

\* is_structural of the crawl loop
IsStructural(root, u) ==
  LET url_path == RStripSlash(Lower(UrlPath(root, u)))
  IN  \E p \in EXCLUDED_FROM_EMPTY_COUNT :
        url_path = p \/ IsPrefix(p \o <<"/">>, url_path)

\* ----------------------------------------------------------------- CMS
\* The raw HTML of a page, as far as _detect_cms reads it: the set of the
\* signature strings that occur in it.
CMS_SIGNATURES ==
  << <<"WordPress", {"wp-content", "wp-includes", "wp-json", "/wp-admin",
                     "meta name=\"generator\" content=\"WordPress"}>>,
     <<"Wix", {"wix.com", "X-Wix-", "_wix_browser_sess", "static.wixstatic.com"}>>,
     <<"Shopify", {"cdn.shopify.com", "Shopify.theme", "myshopify.com"}>>,
     <<"Prestashop", {"PrestaShop", "prestashop", "/modules/ps_"}>>,
     <<"Webflow", {"webflow.com", "Webflow", "assets.website-files.com"}>>,
     <<"Squarespace", {"squarespace.com", "static1.squarespace.com", "Squarespace"}>>,
     <<"Joomla", {"Joomla!", "/media/jui/", "/components/com_"}>>,
     <<"Drupal", {"Drupal", "/sites/default/files/", "drupal.js"}>> >>

\* the first entry of the table, from index k on, one of whose signatures
\* is in html
RECURSIVE DetectFrom(_, _)
DetectFrom(k, html) ==
  IF k > Len(CMS_SIGNATURES) THEN None
  ELSE IF CMS_SIGNATURES[k][2] \cap html # {} THEN CMS_SIGNATURES[k][1]
  ELSE DetectFrom(k + 1, html)

_detect_cms_last(html) ==
  LET hits == {k \in 1..Len(CMS_SIGNATURES) : CMS_SIGNATURES[k][2] \cap html # {}}
  IN  IF hits = {} THEN None ELSE CMS_SIGNATURES[SetMax(hits)][1]

_detect_cms(html) == DetectFrom(1, html)

\* ----------------------------------------------------------- page content
\* What the parsers extract from the HTML of a fetched page, apart from its
\* links and dates.
GoodPage ==
  [title |-> "Chantier naval de Bordeaux", meta_desc |-> TRUE, h1 |-> 1,
   canonical |-> TRUE, noindex |-> FALSE, words |-> 300, text_bytes |-> 1800,
   html_bytes |-> 6000, html |-> {"wp-content", "wix.com"}, rss |-> TRUE, article_links |-> 2]

PoorPage ==
  [title |-> "", meta_desc |-> FALSE, h1 |-> 0,
   canonical |-> FALSE, noindex |-> TRUE, words |-> 10, text_bytes |-> 60,
   html_bytes |-> 1000, html |-> {}, rss |-> FALSE, article_links |-> 0]

ShortPage ==
  [title |-> "Accueil", meta_desc |-> TRUE, h1 |-> 2,
   canonical |-> FALSE, noindex |-> FALSE, words |-> 49, text_bytes |-> 300,
   html_bytes |-> 3000, html |-> {"static.wixstatic.com", "Drupal"}, rss |-> FALSE, article_links |-> 0]

PageTemplates == {GoodPage, PoorPage, ShortPage}

SeqsUpTo(S, n) == UNION { [1..k -> S] : k \in 0..n }

\* targets of a blog-keyword link found in a navigation element
NavTargets(root) == {root \o <<"/", "blog">>, ExternalBlog}

\* A fetched HTML page: the set _get_internal_links returns, the link
\* _detect_blog_in_nav returns (an <a href> of the page, so when it points
\* into the site it is among the internal links), the list _extract_dates
\* returns and the remaining signals.
PageInputs(root) ==
  { pg \in [links : {L \in SUBSET SiteUrls(root) : Cardinality(L) <= MaxLinks},
            nav   : {NoUrl} \cup NavTargets(root),
            dates : SeqsUpTo(DateStrings, MaxDatesPerPage),
            seo   : PageTemplates] :
      pg.nav \in SiteUrls(root) => pg.nav \in pg.links }

\* the pages that differ by their links only
PlainPages(root) ==
  { pg \in PageInputs(root) : pg.nav = NoUrl /\ pg.dates = <<>> /\ pg.seo = PoorPage }

\* page contents with 50, 10 and 49 words
ContentTemplates == {[GoodPage EXCEPT !.words = 50], PoorPage, ShortPage}

\* pages without dates and without a navigation link to a blog, that differ
\* by their content
ContentPages(root) ==
  [links : {L \in SUBSET ContentUrls(root) : Cardinality(L) <= MaxLinks},
   nav   : {NoUrl},
   dates : {<<>>},
   seo   : ContentTemplates]

\* all orders in which a set can be iterated
Orders(S) ==
  {s \in [1..Cardinality(S) -> S] : \A i, j \in 1..Cardinality(S) : s[i] = s[j] => i = j}

\* ------------------------------------------------------------ arithmetic
\* round(a / b) of Python 3: to nearest, ties to the even integer
RoundDiv(a, b) ==
  LET q == a \div b
      r == a % b
  IN  IF 2 * r < b THEN q
      ELSE IF 2 * r > b THEN q + 1
      ELSE IF q % 2 = 0 THEN q ELSE q + 1

\* round(a / b, 2), in hundredths
Round2(a, b) == RoundDiv(100 * a, b)

RECURSIVE SumSeq(_)
SumSeq(s) == IF s = <<>> THEN 0 ELSE Head(s) + SumSeq(Tail(s))

\* sorted(): insertion into an ascending list
RECURSIVE InsertAsc(_, _)
InsertAsc(x, s) ==
  IF s = <<>> THEN <<x>>
  ELSE IF x < Head(s) THEN <<x>> \o s
  ELSE <<Head(s)>> \o InsertAsc(x, Tail(s))

RECURSIVE Sorted(_)
Sorted(s) == IF s = <<>> THEN <<>> ELSE InsertAsc(Head(s), Sorted(Tail(s)))

\* ------------------------------------------------------ audit_site: state
VARIABLES
  pc,                 \* "crawl": in the while loop; "done": audit_site has returned
  start,              \* url.rstrip("/"), the entry URL of the crawl
  max_pages,
  result,             \* the result dict
  visited,
  queue,              \* deque of <<url, depth>>
  all_titles,
  all_dates,
  blog_dates,
  nav_blog_candidate,
  total_words,
  total_html_bytes,
  total_text_bytes,
  pages_crawled,
  cms_detected,
  fetch_log,          \* history: every URL passed to _safe_get by the loop
  enqueue_log,        \* history: every URL appended to the queue
  thin_fetched,       \* history: crawled URLs whose page had no date and no article link
  verify_log,         \* history: what _verify_blog_has_content saw, if it ran
  now_reads,          \* history: the days on which datetime.now() was read
  relinked,           \* history: some page linked to a URL that was already visited
  rerun,              \* the result of the post-processing run again on the same crawl data
  page_log,           \* history: per parsed page, its URL, word count, HTML and blog flag
  dropped_links,      \* history: links of the page that used up the budget, not visited before
  \* a helper function called on its own
  helper,             \* the call: function name, argument, returned value
  \* create_prospect_scoring_v2
  spc,                \* "scoring": in the row loop; "done": report written; "raised": exception
  nrows,              \* number of rows of the input table
  df,                 \* per row read so far: site_verifie, nb_pages, prospect_score
  row,                \* the row iterrows() yielded last
  report,             \* final_df: <<index, score>> of the rows written, in order
  \* run_seo_audit
  batch               \* the table being audited and the position of its row loop

scoring_vars == << spc, nrows, df, row, report >>

audit_vars ==
  << pc, start, max_pages, result, visited, queue, all_titles, all_dates,
     blog_dates, nav_blog_candidate, total_words, total_html_bytes,
     total_text_bytes, pages_crawled, cms_detected, fetch_log, enqueue_log,
     thin_fetched, verify_log, now_reads, relinked, rerun, page_log,
     dropped_links >>

vars == << audit_vars, scoring_vars, helper, batch >>

\* the result dict as audit_site creates it; ratios are in hundredths
ResultDefault ==
  [ nb_pages |-> 0, profondeur_max |-> 0, has_sitemap |-> FALSE,
    has_blog |-> FALSE, blog_url |-> NoUrl, has_rss |-> FALSE,
    blog_status |-> "absent", derniere_maj_blog |-> NoDate,
    frequence_publication |-> None,
    derniere_date |-> NoDate, activite_status |-> "inconnu",
    pages_sans_title |-> 0, pages_title_court |-> 0, titles_dupliques |-> 0,
    pages_sans_meta_desc |-> 0, pages_sans_h1 |-> 0, pages_h1_multiple |-> 0,
    pages_sans_canonical |-> 0,
    has_robots_txt |-> FALSE, pages_noindex |-> 0,
    mots_moyen_par_page |-> 0, pages_vides |-> 0, ratio_texte_html |-> 0,
    cms_detecte |-> None,
    audit_erreur |-> None ]

\* what _verify_blog_has_content gets from its own fetch of the candidate:
\* whether the response is a 200, how many dates _extract_dates finds and
\* how many links look like articles
VerifyInputs ==
  { v \in [ran : {TRUE}, ok : BOOLEAN, dates : 0..2, article_links : 0..2] :
      ~v.ok => (v.dates = 0 /\ v.article_links = 0) }
NotVerified == [ran |-> FALSE, ok |-> FALSE, dates |-> 0, article_links |-> 0]

\* the scoring step is not running
NoRow == [site_verifie |-> FALSE]
ScoringIdle ==
  /\ spc = "idle"
  /\ nrows = 0
  /\ df = <<>>
  /\ row = NoRow
  /\ report = <<>>

\* no helper function is being called on its own
NoCall == [fn |-> "none", arg |-> <<>>, ret |-> "pending"]
HelperIdle == helper = NoCall

\* run_seo_audit is not running
NoBatch ==
  [state |-> "idle", max_pages |-> 0, rows |-> <<>>, idx |-> 0, order |-> <<>>,
   cols |-> <<>>, raised |-> {}]
BatchIdle == batch = NoBatch

\* State when the while loop is first reached: robots.txt and sitemap.xml
\* have been probed, the entry URL is queued and marked visited.
InitWith(budgets) ==
  /\ ScoringIdle
  /\ HelperIdle
  /\ BatchIdle
  /\ page_log = <<>>
  /\ dropped_links = {}
  /\ \E url \in InputUrls, mp \in budgets, robots \in BOOLEAN, sitemap \in BOOLEAN :
       /\ pc = "crawl"
       /\ start = RStripSlash(url)
       /\ max_pages = mp
       /\ result = [ResultDefault EXCEPT !.has_robots_txt = robots, !.has_sitemap = sitemap]
       /\ visited = {RStripSlash(url)}
       /\ queue = << <<RStripSlash(url), 0>> >>
       /\ all_titles = <<>>
       /\ all_dates = <<>>
       /\ blog_dates = <<>>
       /\ nav_blog_candidate = NoUrl
       /\ total_words = 0
       /\ total_html_bytes = 0
       /\ total_text_bytes = 0
       /\ pages_crawled = 0
       /\ cms_detected = None
       /\ fetch_log = <<>>
       /\ enqueue_log = <<RStripSlash(url)>>
       /\ thin_fetched = {}
       /\ verify_log = NotVerified
       /\ now_reads = <<>>
       /\ relinked = FALSE
       /\ rerun = ResultDefault

Init == InitWith(1..MaxBudget)

InitCrawl == InitWith(1..MaxCrawlBudget)

LoopGuard_frontier == queue # <<>>

LoopGuard_inclusive == queue # <<>> /\ pages_crawled <= max_pages

\* while queue and pages_crawled < max_pages
LoopGuard == queue # <<>> /\ pages_crawled < max_pages

\* outcomes of _safe_get that make the loop `continue`
FetchFailures == {"exception", "status_not_200", "not_text_html"}

FetchSkip_counted ==
  /\ pc = "crawl"
  /\ LoopGuard
  /\ \E outcome \in FetchFailures :
       /\ queue' = Tail(queue)
       /\ fetch_log' = Append(fetch_log, Head(queue)[1])
  /\ pages_crawled' = pages_crawled + 1
  /\ UNCHANGED << pc, start, max_pages, result, visited, all_titles, all_dates,
                  blog_dates, nav_blog_candidate, total_words, total_html_bytes,
                  total_text_bytes, cms_detected, enqueue_log,
                  thin_fetched, verify_log, now_reads, relinked, rerun,
                  page_log, dropped_links >>
  /\ UNCHANGED << scoring_vars, helper, batch >>

\* One iteration whose fetch is not a 200 text/html response.
FetchSkip ==
  /\ pc = "crawl"
  /\ LoopGuard
  /\ \E outcome \in FetchFailures :
       /\ queue' = Tail(queue)
       /\ fetch_log' = Append(fetch_log, Head(queue)[1])
  /\ UNCHANGED << pc, start, max_pages, result, visited, all_titles, all_dates,
                  blog_dates, nav_blog_candidate, total_words, total_html_bytes,
                  total_text_bytes, pages_crawled, cms_detected, enqueue_log,
                  thin_fetched, verify_log, now_reads, relinked, rerun,
                  page_log, dropped_links >>
  /\ UNCHANGED << scoring_vars, helper, batch >>

BlogUrlAfter_latest(res, current_url, is_blog_page) ==
  IF is_blog_page THEN current_url ELSE res.blog_url

\* blog_url after the URL-pattern test of one more parsed page
BlogUrlAfter(res, current_url, is_blog_page) ==
  IF is_blog_page /\ ~res.has_blog THEN current_url ELSE res.blog_url

\* the counters and flags of the result dict after one more parsed page
IsShortTitle_any(title) == Len(title) < 20

\* `if not title` ... `elif len(title) < 20`
IsShortTitle(title) == title # "" /\ Len(title) < 20

CountPage(res, current_url, depth, pg, is_blog_page, is_structural) ==
  LET t == pg.seo
  IN  [res EXCEPT
        !.pages_sans_title = IF t.title = "" THEN @ + 1 ELSE @,
        !.pages_title_court = IF IsShortTitle(t.title) THEN @ + 1 ELSE @,
        !.pages_sans_meta_desc = IF ~t.meta_desc THEN @ + 1 ELSE @,
        !.pages_sans_h1 = IF t.h1 = 0 THEN @ + 1 ELSE @,
        !.pages_h1_multiple = IF t.h1 > 1 THEN @ + 1 ELSE @,
        !.pages_sans_canonical = IF ~t.canonical THEN @ + 1 ELSE @,
        !.pages_noindex = IF t.noindex THEN @ + 1 ELSE @,
        !.pages_vides = IF t.words < 50 /\ ~is_structural THEN @ + 1 ELSE @,
        !.has_blog = @ \/ is_blog_page,
        !.blog_url = BlogUrlAfter(res, current_url, is_blog_page),
        !.has_rss = @ \/ t.rss,
        !.profondeur_max = IF depth > @ THEN depth ELSE @ ]

NewLinks_unfiltered(links, seen) == links

\* the links of a page that the loop appends to the queue
NewLinks(links, seen) == links \ seen

BudgetLeft_always(crawled) == TRUE

\* `if pages_crawled < max_pages` before the links of a page are queued
BudgetLeft(crawled) == crawled < max_pages

ChildDepth_same(depth) == depth

\* queue.append((link, depth + 1))
ChildDepth(depth) == depth + 1

\* One iteration whose fetch returns an HTML page, one of `pages`.
FetchPageFrom(pages) ==
  /\ pc = "crawl"
  /\ LoopGuard
  /\ LET current_url == Head(queue)[1]
         depth == Head(queue)[2]
         crawled == pages_crawled + 1
         is_blog_page == IsBlogUrl(current_url)
         is_structural == IsStructural(start, current_url)
     IN  \E pg \in pages :
           LET fresh == IF BudgetLeft(crawled) THEN NewLinks(pg.links, visited) ELSE {}
           IN  /\ pages_crawled' = crawled
               /\ total_html_bytes' = total_html_bytes + pg.seo.html_bytes
               /\ cms_detected' = IF cms_detected = None THEN _detect_cms(pg.seo.html) ELSE cms_detected
               /\ all_titles' = Append(all_titles, pg.seo.title)
               /\ total_words' = total_words + pg.seo.words
               /\ total_text_bytes' = total_text_bytes + pg.seo.text_bytes
               /\ all_dates' = all_dates \o pg.dates
               /\ result' = CountPage(result, current_url, depth, pg,
                                      is_blog_page, is_structural)
               /\ nav_blog_candidate' =
                    IF nav_blog_candidate = NoUrl THEN pg.nav ELSE nav_blog_candidate
               /\ blog_dates' = IF is_blog_page THEN blog_dates \o pg.dates ELSE blog_dates
               /\ visited' = visited \cup fresh
               /\ \E order \in Orders(fresh) :
                    /\ queue' = Tail(queue) \o
                                  [i \in 1..Len(order) |-> <<order[i], ChildDepth(depth)>>]
                    /\ enqueue_log' = enqueue_log \o order
               /\ fetch_log' = Append(fetch_log, current_url)
               /\ relinked' = (relinked \/ (BudgetLeft(crawled) /\ pg.links \cap visited # {}))
               /\ thin_fetched' =
                    IF pg.dates = <<>> /\ pg.seo.article_links = 0
                    THEN thin_fetched \cup {current_url} ELSE thin_fetched
               /\ page_log' = Append(page_log,
                    [url |-> current_url, words |-> pg.seo.words,
                     html |-> pg.seo.html, is_blog_page |-> is_blog_page,
                     depth |-> depth])
               /\ dropped_links' =
                    IF crawled < max_pages THEN dropped_links ELSE pg.links \ visited
  /\ UNCHANGED << pc, start, max_pages, verify_log, now_reads, rerun >>
  /\ UNCHANGED << scoring_vars, helper, batch >>

FetchPage == FetchPageFrom(PageInputs(start))

CrawlPage == FetchPageFrom(PlainPages(start))

ContentPage == FetchPageFrom(ContentPages(start))

\* -------------------------------------------- audit_site: post-processing
_verify_blog_has_content(v) ==
  /\ v.ok
  /\ (v.dates >= 2 \/ v.article_links >= 2)

PositiveIntervals_all(gaps) == gaps

\* the day gaps kept by the `if ... .days > 0` of the list comprehension
PositiveIntervals(gaps) == SelectSeq(gaps, LAMBDA g : g > 0)

FrequencyClass_strict(total, n) ==
  IF total < 14 * n THEN "hebdomadaire"
  ELSE IF total < 45 * n THEN "mensuelle"
  ELSE IF total < 100 * n THEN "trimestrielle"
  ELSE "rare"

\* the class of avg_days = total / n
FrequencyClass(total, n) ==
  IF total <= 14 * n THEN "hebdomadaire"
  ELSE IF total <= 45 * n THEN "mensuelle"
  ELSE IF total <= 100 * n THEN "trimestrielle"
  ELSE "rare"

_compute_publication_frequency(dates_parsed) ==
  IF Len(dates_parsed) < 2 THEN None
  ELSE LET sorted_dates == Sorted(dates_parsed)
           gaps == [i \in 1..(Len(sorted_dates) - 1) |-> sorted_dates[i + 1] - sorted_dates[i]]
           intervals == PositiveIntervals(gaps)
       IN  IF intervals = <<>> THEN None
           ELSE FrequencyClass(SumSeq(intervals), Len(intervals))

\* the visited URLs in which a blog pattern occurs
BlogUrlsIn(seen) == {v \in seen : IsBlogUrl(v)}

ZeroPages_silent(res) == res

\* the result when no page could be fetched
ZeroPages(res) == [res EXCEPT !.audit_erreur = "Aucune page accessible"]

\* Fallback 1: `first` is the first URL with a blog pattern that the
\* iteration over the visited set meets (NoUrl when there is none)
Fallback1(res, first) ==
  IF ~res.has_blog /\ first # NoUrl
  THEN [res EXCEPT !.has_blog = TRUE, !.blog_url = first]
  ELSE res

\* Fallback 2: the navigation candidate, if its content is verified
Fallback2(res, candidate, v) ==
  IF ~res.has_blog /\ candidate # NoUrl /\ _verify_blog_has_content(v)
  THEN [res EXCEPT !.has_blog = TRUE, !.blog_url = candidate]
  ELSE res

BlogStatusOfAge_inclusive(days_since_blog) ==
  IF days_since_blog <= 365 THEN "actif"
  ELSE IF days_since_blog <= 730 THEN "semi-actif"
  ELSE "abandonné"

\* blog_status from the age in days of the latest blog date
BlogStatusOfAge(days_since_blog) ==
  IF days_since_blog < 365 THEN "actif"
  ELSE IF days_since_blog < 730 THEN "semi-actif"
  ELSE "abandonné"

BlogStatusUndated_inconnu(has_blog) == IF has_blog THEN "présent" ELSE "inconnu"

\* blog_status when no blog date could be parsed
BlogStatusUndated(has_blog) == IF has_blog THEN "présent" ELSE "absent"

BlogActivity(res, dates, now) ==
  LET parsed_blog == ParseAll(dates)
  IN  IF dates # <<>> /\ parsed_blog # <<>>
      THEN LET latest_blog == SetMax(Range(parsed_blog))
           IN  [res EXCEPT
                 !.derniere_maj_blog = Strftime(latest_blog),
                 !.frequence_publication = _compute_publication_frequency(parsed_blog),
                 !.blog_status = BlogStatusOfAge(now - latest_blog)]
      ELSE [res EXCEPT !.blog_status = BlogStatusUndated(res.has_blog)]

DuplicateTitles_all(res, titles) ==
  IF titles # <<>>
  THEN [res EXCEPT !.titles_dupliques =
          Round2(Len(titles) - Cardinality(Range(titles)), Len(titles))]
  ELSE res

DuplicateTitles(res, titles) ==
  LET non_empty_titles == SelectSeq(titles, LAMBDA t : t # "")
      dupes == Len(non_empty_titles) - Cardinality(Range(non_empty_titles))
  IN  IF non_empty_titles # <<>>
      THEN [res EXCEPT !.titles_dupliques = Round2(dupes, Len(non_empty_titles))]
      ELSE res

ContentRatios(res, words, text_bytes, html_bytes, crawled) ==
  [res EXCEPT
    !.mots_moyen_par_page = RoundDiv(words, crawled),
    !.ratio_texte_html = IF html_bytes > 0 THEN Round2(text_bytes, html_bytes) ELSE @]

\* activite_status from dates found on blog pages
ActivityOfBlogAge(days_since) ==
  IF days_since < 365 THEN "actif"
  ELSE IF days_since < 730 THEN "semi-actif"
  ELSE "abandonné"

ActivityOfSiteAge_uncapped(days_since) ==
  IF days_since < 365 THEN "actif"
  ELSE IF days_since < 730 THEN "semi-actif"
  ELSE "abandonné"

\* activite_status from dates found anywhere on the site
ActivityOfSiteAge(days_since) ==
  IF days_since < 730 THEN "semi-actif" ELSE "abandonné"

GlobalActivity(res, b_dates, a_dates, now) ==
  LET parsed_blog_activity == ParseAll(b_dates)
      parsed_all_dates == ParseAll(a_dates)
  IN  IF res.has_blog /\ parsed_blog_activity # <<>>
      THEN LET latest == SetMax(Range(parsed_blog_activity))
           IN  [res EXCEPT !.derniere_date = Strftime(latest),
                           !.activite_status = ActivityOfBlogAge(now - latest)]
      ELSE IF parsed_all_dates # <<>>
      THEN LET latest == SetMax(Range(parsed_all_dates))
           IN  [res EXCEPT !.derniere_date = Strftime(latest),
                           !.activite_status = ActivityOfSiteAge(now - latest)]
      ELSE res

\* Everything audit_site does after the while loop, on the crawl data of
\* the current state.  first: see Fallback1; v: see VerifyInputs;
\* now_blog, now_activity: the two readings of datetime.now().
PostProcess(first, v, now_blog, now_activity) ==
  LET r0 == [result EXCEPT !.nb_pages = pages_crawled, !.cms_detecte = cms_detected]
  IN  IF pages_crawled = 0 THEN ZeroPages(r0)
      ELSE LET r1 == Fallback1(r0, first)
               r2 == Fallback2(r1, nav_blog_candidate, v)
               r3 == BlogActivity(r2, blog_dates, now_blog)
               r4 == DuplicateTitles(r3, all_titles)
               r5 == ContentRatios(r4, total_words, total_text_bytes,
                                   total_html_bytes, pages_crawled)
           IN  GlobalActivity(r5, blog_dates, all_dates, now_activity)

\* the URLs the scan of Fallback 1 can stop at, by iteration order of the
\* set (the scan runs only when no crawled page was a blog page)
FirstMatches ==
  IF pages_crawled = 0 \/ result.has_blog \/ BlogUrlsIn(visited) = {}
  THEN {NoUrl} ELSE BlogUrlsIn(visited)

\* whether Fallback 2 calls _verify_blog_has_content
VerifyRuns ==
  /\ pages_crawled > 0
  /\ ~result.has_blog
  /\ BlogUrlsIn(visited) = {}
  /\ nav_blog_candidate # NoUrl

\* how far the clock can move between the two readings of datetime.now()
\* (the first is made only when a blog date was parsed)
ClockSteps == IF ParseAll(blog_dates) # <<>> THEN {0, 1} ELSE {0}

\* The loop has ended: post-processing and return.  The post-processing is
\* also run a second time on the same crawl data and the same response to
\* the verification fetch, starting at the same instant.
Finish ==
  /\ pc = "crawl"
  /\ ~LoopGuard
  /\ pc' = "done"
  /\ \E v \in (IF VerifyRuns THEN VerifyInputs ELSE {NotVerified}) :
       /\ verify_log' = v
       /\ \E first \in FirstMatches, step \in ClockSteps :
            /\ result' = PostProcess(first, v, Now, Now + step)
            /\ now_reads' = IF pages_crawled = 0 THEN <<>>
                            ELSE IF ParseAll(blog_dates) # <<>> THEN <<Now, Now + step>>
                            ELSE IF ParseAll(all_dates) # <<>> THEN <<Now>>
                            ELSE <<>>
       /\ \E first \in FirstMatches, step \in ClockSteps :
            rerun' = PostProcess(first, v, Now, Now + step)
  /\ UNCHANGED << start, max_pages, visited, queue, all_titles, all_dates,
                  blog_dates, nav_blog_candidate, total_words, total_html_bytes,
                  total_text_bytes, pages_crawled, cms_detected, fetch_log,
                  enqueue_log, thin_fetched, relinked, page_log, dropped_links >>
  /\ UNCHANGED << scoring_vars, helper, batch >>

Next == FetchSkip \/ FetchPage \/ Finish

Spec == Init /\ [][Next]_vars

\* the same audit over pages that differ by their links only, with a larger
\* page budget
NextCrawl == FetchSkip \/ CrawlPage \/ Finish

SpecCrawl == InitCrawl /\ [][NextCrawl]_vars

\* the same audit over pages that differ by their content
NextContent == FetchSkip \/ ContentPage \/ Finish

SpecContent == InitCrawl /\ [][NextContent]_vars

\* Every iteration of the loop ends: requests.get is called with a timeout,
\* the parsing of a page is finite and time.sleep(0.5) returns.
FairSpecCrawl == SpecCrawl /\ WF_vars(NextCrawl)

\* ------------------------------------------- create_prospect_scoring_v2
\* An empty cell of the CSV, as pd.read_csv returns it: NaN in a numeric
\* column, and a value whose str() is "nan" in a text column.
NaN == -1
NanText == "nan"

\* has_blog, blog_status, frequence_publication, derniere_maj_blog of a row
BlogCells ==
  { <<FALSE, "absent", NanText, NoDate>>,
    <<TRUE, "présent", NanText, NoDate>>,
    <<TRUE, "actif", "hebdomadaire", <<2026, 10, 1>> >>,
    <<TRUE, "actif", "rare", <<2026, 10, 1>> >>,
    <<TRUE, "semi-actif", "trimestrielle", <<2025, 6, 1>> >>,
    <<TRUE, "abandonné", NanText, <<2024, 11, 2>> >>,
    <<TRUE, "abandonné", "rare", <<2022, 11, 2>> >> }

\* the other audit columns of a row; ratios are in hundredths
SiteProfiles ==
  { [activite_status |-> "abandonné", mots_moyen_par_page |-> 100,
     ratio_texte_html |-> 10, cms_detecte |-> NanText, has_sitemap |-> FALSE,
     pages_sans_meta_desc |-> 3, pages_sans_h1 |-> 3, titles_dupliques |-> 50,
     pages_vides |-> 3],
    [activite_status |-> "semi-actif", mots_moyen_par_page |-> 250,
     ratio_texte_html |-> 15, cms_detecte |-> "Wix", has_sitemap |-> TRUE,
     pages_sans_meta_desc |-> 1, pages_sans_h1 |-> 0, titles_dupliques |-> 30,
     pages_vides |-> 0],
    [activite_status |-> "inconnu", mots_moyen_par_page |-> 150,
     ratio_texte_html |-> 14, cms_detecte |-> "Squarespace", has_sitemap |-> FALSE,
     pages_sans_meta_desc |-> 0, pages_sans_h1 |-> 2, titles_dupliques |-> 31,
     pages_vides |-> 1],
    [activite_status |-> "actif", mots_moyen_par_page |-> 500,
     ratio_texte_html |-> 20, cms_detecte |-> "WordPress", has_sitemap |-> TRUE,
     pages_sans_meta_desc |-> 0, pages_sans_h1 |-> 0, titles_dupliques |-> 0,
     pages_vides |-> 0] }

\* values of the nb_pages column
PageCounts == {NaN, 0, 3, 5, 60}

\* the rows of the input table
RowSet ==
  { [site_verifie |-> sv, nb_pages |-> n,
     has_blog |-> b[1], blog_status |-> b[2], frequence_publication |-> b[3],
     derniere_maj_blog |-> b[4],
     activite_status |-> p.activite_status,
     mots_moyen_par_page |-> p.mots_moyen_par_page,
     ratio_texte_html |-> p.ratio_texte_html, cms_detecte |-> p.cms_detecte,
     has_sitemap |-> p.has_sitemap, pages_sans_meta_desc |-> p.pages_sans_meta_desc,
     pages_sans_h1 |-> p.pages_sans_h1, titles_dupliques |-> p.titles_dupliques,
     pages_vides |-> p.pages_vides] :
      sv \in BOOLEAN, n \in PageCounts, b \in BlogCells, p \in SiteProfiles }

\* All amounts below are in tenths of a point.

\* age in days of derniere_maj_blog, or NoDay when it is empty or unparseable
BlogAgeDays(derniere_maj) ==
  IF derniere_maj = NoDate THEN NoDay
  ELSE IF derniere_maj[3] > DaysInMonth(derniere_maj[1], derniere_maj[2]) THEN NoDay
  ELSE Now - ToDays(derniere_maj[1], derniere_maj[2], derniere_maj[3])

BlogTerm(r) ==
  IF r.has_blog
  THEN IF r.blog_status = "abandonné"
       THEN LET age == BlogAgeDays(r.derniere_maj_blog)
            IN  IF age # NoDay /\ age > 4 * 365 THEN 70 ELSE 50
       ELSE IF r.blog_status = "semi-actif" THEN 20
       ELSE IF r.blog_status = "actif"
               /\ r.frequence_publication \in {"hebdomadaire", "mensuelle"} THEN -40
       ELSE 0
  ELSE 10

ActivityTerm(r) ==
  IF r.blog_status \notin {"abandonné", "semi-actif", "actif"}
  THEN IF r.activite_status = "abandonné" THEN 40
       ELSE IF r.activite_status = "semi-actif" THEN 10
       ELSE 0
  ELSE 0

SizeTerm(r) ==
  IF r.nb_pages < 5 THEN 30
  ELSE IF r.nb_pages < 10 THEN 10
  ELSE IF r.nb_pages > 50 THEN -30
  ELSE 0

ContentTerm(r) ==
  (IF r.mots_moyen_par_page < 150 THEN 20
   ELSE IF r.mots_moyen_par_page > 400 THEN -20 ELSE 0)
  + (IF r.ratio_texte_html < 15 THEN 20 ELSE 0)

CmsTerm(r) ==
  IF r.cms_detecte \in {"", "none", "None"} THEN 20
  ELSE IF r.cms_detecte \in {"Wix", "Squarespace"} THEN 10
  ELSE 0

SitemapTerm(r) == IF ~r.has_sitemap THEN 10 ELSE 0

\* int((count / nb_pages) / 0.2) in double arithmetic: the quotient of the
\* doubles nearest to 0.6 and 0.2 is 2.9999999999999996
Tranches(count, nb_pages) ==
  IF 5 * count = 3 * nb_pages THEN 2 ELSE (5 * count) \div nb_pages

SeoTerm(r) ==
  5 * Tranches(r.pages_sans_meta_desc, r.nb_pages)
  + 5 * Tranches(r.pages_sans_h1, r.nb_pages)
  + (IF r.titles_dupliques > 30 THEN 5 ELSE 0)
  + 5 * Tranches(r.pages_vides, r.nb_pages)

\* the weighted sum before clamping
RawScore(r) ==
  BlogTerm(r) + ActivityTerm(r) + SizeTerm(r) + ContentTerm(r) + CmsTerm(r)
  + SitemapTerm(r) + SeoTerm(r)

Clamp_missing(score) == score

\* max(1.0, min(10.0, round(score, 1))); every sum is a multiple of 0.5
Clamp(score) ==
  IF score > 100 THEN 100 ELSE IF score < 10 THEN 10 ELSE score

\* what the loop leaves in the frame for a row it does not score
Unscored(r) ==
  [site_verifie |-> r.site_verifie, nb_pages |-> r.nb_pages,
   scored |-> FALSE, raw |-> 0, prospect_score |-> 0,
   blog_term |-> 0, seo_term |-> 0, twin_score |-> 0]

\* Rows that carry the same values as r in every column but activite_status
\* and derniere_maj_blog, as another audit can produce them: without a dated
\* blog the site activity comes from the dates of the other pages, and an
\* abandoned blog has a last post of any age beyond 730 days.
TwinRows(r) ==
  IF r.blog_status \in {"abandonné", "semi-actif", "actif"}
  THEN IF r.blog_status = "abandonné"
       THEN {[r EXCEPT !.derniere_maj_blog = d] :
               d \in { <<2024, 11, 2>>, <<2022, 11, 2>> }}
       ELSE {r}
  ELSE {[r EXCEPT !.activite_status = a] :
          a \in {"inconnu", "actif", "semi-actif", "abandonné"}}

\* the frame after scoring r; twin is a second row scored by the same code,
\* kept to compare the two scores
Scored(r, twin) ==
  [site_verifie |-> r.site_verifie, nb_pages |-> r.nb_pages,
   scored |-> TRUE, raw |-> RawScore(r), prospect_score |-> Clamp(RawScore(r)),
   blog_term |-> BlogTerm(r), seo_term |-> SeoTerm(r),
   twin_score |-> Clamp(RawScore(twin))]

\* audit_site is not running
AuditIdle ==
  /\ pc = "idle"
  /\ start = NoUrl
  /\ max_pages = 0
  /\ result = ResultDefault
  /\ visited = {}
  /\ queue = <<>>
  /\ all_titles = <<>>
  /\ all_dates = <<>>
  /\ blog_dates = <<>>
  /\ nav_blog_candidate = NoUrl
  /\ total_words = 0
  /\ total_html_bytes = 0
  /\ total_text_bytes = 0
  /\ pages_crawled = 0
  /\ cms_detected = None
  /\ fetch_log = <<>>
  /\ enqueue_log = <<>>
  /\ thin_fetched = {}
  /\ verify_log = NotVerified
  /\ now_reads = <<>>
  /\ relinked = FALSE
  /\ rerun = ResultDefault
  /\ page_log = <<>>
  /\ dropped_links = {}

InitScoring ==
  /\ AuditIdle
  /\ HelperIdle
  /\ BatchIdle
  /\ spc = "scoring"
  /\ nrows \in 0..MaxRows
  /\ df = <<>>
  /\ row = NoRow
  /\ report = <<>>

\* One iteration of the loop over df.iterrows().
ScoreRow ==
  /\ spc = "scoring"
  /\ Len(df) < nrows
  /\ \E r \in RowSet :
       /\ row' = r
       /\ IF ~r.site_verifie \/ r.nb_pages = 0
          THEN df' = Append(df, Unscored(r)) /\ spc' = spc
          ELSE IF r.nb_pages = NaN
          THEN \* int() of a NaN ratio raises ValueError
               df' = Append(df, Unscored(r)) /\ spc' = "raised"
          ELSE /\ \E twin \in TwinRows(r) : df' = Append(df, Scored(r, twin))
               /\ spc' = spc
  /\ UNCHANGED << nrows, report >>
  /\ UNCHANGED << audit_vars, helper, batch >>

KeepRow_all(rec) == TRUE

\* df[df["prospect_score"] > 0]
KeepRow(rec) == rec.prospect_score > 0

RECURSIVE InsertDesc_ascending(_, _)
InsertDesc_ascending(x, s) ==
  IF s = <<>> THEN <<x>>
  ELSE IF x.score < Head(s).score THEN <<x>> \o s
  ELSE <<Head(s)>> \o InsertDesc_ascending(x, Tail(s))

\* sort_values(by="score", ascending=False): rows of equal score keep
\* their order
RECURSIVE InsertDesc(_, _)
InsertDesc(x, s) ==
  IF s = <<>> THEN <<x>>
  ELSE IF x.score > Head(s).score THEN <<x>> \o s
  ELSE <<Head(s)>> \o InsertDesc(x, Tail(s))

RECURSIVE SortDesc(_)
SortDesc(s) ==
  IF s = <<>> THEN <<>>
  ELSE InsertDesc(s[Len(s)], SortDesc(SubSeq(s, 1, Len(s) - 1)))

\* the rows kept for the report, in table order
RECURSIVE Kept(_, _)
Kept(frame, i) ==
  IF i > Len(frame) THEN <<>>
  ELSE (IF KeepRow(frame[i])
        THEN << [index |-> i, score |-> frame[i].prospect_score] >> ELSE <<>>)
       \o Kept(frame, i + 1)

\* After the loop: filter, sort and write the report.
WriteReport ==
  /\ spc = "scoring"
  /\ Len(df) = nrows
  /\ report' = SortDesc(Kept(df, 1))
  /\ spc' = "done"
  /\ UNCHANGED << nrows, df, row >>
  /\ UNCHANGED << audit_vars, helper, batch >>

NextScoring == ScoreRow \/ WriteReport

SpecScoring == InitScoring /\ [][NextScoring]_vars

\* ------------------------------------------ helper functions on their own
\* datetimes passed to _compute_publication_frequency, as day numbers: the
\* gaps between them fall on and next to each threshold
FrequencyDays == {0, 7, 14, 15, 45, 46, 100, 101}

\* signature strings that the HTML passed to _detect_cms may hold
HtmlSignatures ==
  {"wp-content", "wix.com", "cdn.shopify.com", "Joomla!", "Drupal", "drupal.js"}

\* The page passed to _get_internal_links and the site it belongs to.
LinkBaseUrl ==
  [scheme |-> "https:", netloc |-> <<"example.fr">>, path |-> <<"/">>, fragment |-> ""]

LinkBaseDomain == <<"example.fr">>

\* scheme and netloc of an href; both are empty in a relative href
HrefOrigins ==
  { [scheme |-> "", netloc |-> <<>>] }
  \cup { [scheme |-> sc, netloc |-> n] :
           sc \in {"https:", "ftp:"},
           n \in { <<"example.fr">>, <<"www.", "example.fr">>, <<"other.com">> } }

HrefPaths ==
  { <<"/">>, <<"/", "page">>, <<"/", "page", "/">>,
    <<"/", "file", ".pdf">>, <<"/", "file", ".PDF">>, <<"/", "file", ".pdf", "/">> }

\* the href attributes of the anchors of a page
Hrefs ==
  { [scheme |-> o.scheme, netloc |-> o.netloc, path |-> p, fragment |-> f] :
      o \in HrefOrigins, p \in HrefPaths, f \in {"", "#top"} }

\* the subsets of S of at most n elements
RECURSIVE SetsUpTo(_, _)
SetsUpTo(S, n) ==
  IF n = 0 THEN { {} }
  ELSE LET smaller == SetsUpTo(S, n - 1)
       IN  smaller \cup {a \cup {x} : a \in smaller, x \in S}

AnchorSets == SetsUpTo(Hrefs, MaxHrefs)

\* urlparse(urljoin(base_url, href)) for an absolute href and for a relative
\* one whose path starts with "/"
urljoin(base_url, href) ==
  IF href.scheme = ""
  THEN [href EXCEPT !.scheme = base_url.scheme, !.netloc = base_url.netloc]
  ELSE href

\* netloc.replace("www.", "")
StripWww(netloc) == SelectSeq(netloc, LAMBDA t : t # "www.")

\* f"{parsed.scheme}://{parsed.netloc}{parsed.path}"
CleanUrl(parsed) == <<parsed.scheme, "/", "/">> \o parsed.netloc \o parsed.path

BINARY_EXTENSIONS ==
  {".pdf", ".jpg", ".jpeg", ".png", ".gif", ".svg", ".css", ".js", ".zip",
   ".doc", ".xls", ".mp3", ".mp4"}

\* re.search(r"\.(pdf|...)$", clean, re.I)
IsBinary(clean) == LowerTok(clean[Len(clean)]) \in BINARY_EXTENSIONS

_get_internal_links(hrefs, base_url, base_domain) ==
  { RStripSlash(CleanUrl(urljoin(base_url, h))) :
      h \in { x \in hrefs :
                /\ StripWww(urljoin(base_url, x).netloc) = base_domain
                /\ ~IsBinary(CleanUrl(urljoin(base_url, x))) } }

\* the set of links before _get_internal_links has returned
PendingLinks == { <<"pending">> }

InitHelpers ==
  /\ AuditIdle
  /\ ScoringIdle
  /\ BatchIdle
  /\ \/ \E d \in SeqsUpTo(FrequencyDays, MaxDates) :
          helper = [fn |-> "_compute_publication_frequency", arg |-> d, ret |-> "pending"]
     \/ \E h \in SUBSET HtmlSignatures :
          helper = [fn |-> "_detect_cms", arg |-> h, ret |-> "pending"]
     \/ \E a \in AnchorSets :
          helper = [fn |-> "_get_internal_links",
                    arg |-> [hrefs |-> a, base_url |-> LinkBaseUrl,
                             base_domain |-> LinkBaseDomain],
                    ret |-> PendingLinks]

CallFrequency ==
  /\ helper.fn = "_compute_publication_frequency"
  /\ helper.ret = "pending"
  /\ helper' = [helper EXCEPT !.ret = _compute_publication_frequency(helper.arg)]
  /\ UNCHANGED << audit_vars, scoring_vars, batch >>

CallDetectCms ==
  /\ helper.fn = "_detect_cms"
  /\ helper.ret = "pending"
  /\ helper' = [helper EXCEPT !.ret = _detect_cms(helper.arg)]
  /\ UNCHANGED << audit_vars, scoring_vars, batch >>

CallGetInternalLinks ==
  /\ helper.fn = "_get_internal_links"
  /\ helper.ret = PendingLinks
  /\ helper' = [helper EXCEPT !.ret = _get_internal_links(helper.arg.hrefs,
                                        helper.arg.base_url, helper.arg.base_domain)]
  /\ UNCHANGED << audit_vars, scoring_vars, batch >>

NextHelpers == CallFrequency \/ CallDetectCms \/ CallGetInternalLinks

SpecHelpers == InitHelpers /\ [][NextHelpers]_vars

\* ------------------------------------------------------------ run_seo_audit
\* the rows of the input CSV: site_verifie and site_web
BatchRows == [site_verifie : BOOLEAN, site_web : InputUrls]

\* str(exc) of an exception that audit_site lets through
ExcText == "exception"

\* the audit columns of a row after `df[col] = None`
EmptyCols == [filled |-> FALSE, audit |-> ResultDefault, audit_erreur |-> None]

\* run_seo_audit has read the CSV, added the empty audit columns and is
\* about to enter the loop over the verified rows.
InitBatch ==
  /\ AuditIdle
  /\ ScoringIdle
  /\ HelperIdle
  /\ \E rows \in SeqsUpTo(BatchRows, MaxRows), mp \in 1..MaxBudget :
       batch = [state |-> "loop", max_pages |-> mp, rows |-> rows, idx |-> 0,
                order |-> <<>>, cols |-> [i \in 1..Len(rows) |-> EmptyCols],
                raised |-> {}]

NextRow_all(rows, idx) == IF idx < Len(rows) THEN idx + 1 ELSE 0

\* the index that follows idx in df[mask].index, 0 when there is none
NextRow(rows, idx) ==
  LET later == {i \in (idx + 1)..Len(rows) : rows[i].site_verifie}
  IN  IF later = {} THEN 0 ELSE CHOOSE i \in later : \A j \in later : i <= j

\* audit_site(url, max_pages) is called for the next verified row and runs
\* up to its while loop: every local of the call is created anew.
StartAudit ==
  /\ batch.state = "loop"
  /\ NextRow(batch.rows, batch.idx) # 0
  /\ LET idx == NextRow(batch.rows, batch.idx)
         url == batch.rows[idx].site_web
     IN  /\ batch' = [batch EXCEPT !.state = "auditing", !.idx = idx,
                                  !.order = Append(@, idx)]
         /\ pc' = "crawl"
         /\ start' = RStripSlash(url)
         /\ max_pages' = batch.max_pages
         /\ \E robots \in BOOLEAN, sitemap \in BOOLEAN :
              result' = [ResultDefault EXCEPT !.has_robots_txt = robots,
                                              !.has_sitemap = sitemap]
         /\ visited' = {RStripSlash(url)}
         /\ queue' = << <<RStripSlash(url), 0>> >>
         /\ all_titles' = <<>>
         /\ all_dates' = <<>>
         /\ blog_dates' = <<>>
         /\ nav_blog_candidate' = NoUrl
         /\ total_words' = 0
         /\ total_html_bytes' = 0
         /\ total_text_bytes' = 0
         /\ pages_crawled' = 0
         /\ cms_detected' = None
         /\ fetch_log' = <<>>
         /\ enqueue_log' = <<RStripSlash(url)>>
         /\ thin_fetched' = {}
         /\ verify_log' = NotVerified
         /\ now_reads' = <<>>
         /\ relinked' = FALSE
         /\ rerun' = ResultDefault
         /\ page_log' = <<>>
         /\ dropped_links' = {}
  /\ UNCHANGED << scoring_vars, helper >>

\* An exception leaves audit_site while it crawls.
AuditRaises ==
  /\ batch.state = "auditing"
  /\ pc = "crawl"
  /\ pc' = "raised"
  /\ batch' = [batch EXCEPT !.raised = @ \cup {batch.idx}]
  /\ UNCHANGED << start, max_pages, result, visited, queue, all_titles, all_dates,
                  blog_dates, nav_blog_candidate, total_words, total_html_bytes,
                  total_text_bytes, pages_crawled, cms_detected, fetch_log,
                  enqueue_log, thin_fetched, verify_log, now_reads, relinked,
                  rerun, page_log, dropped_links >>
  /\ UNCHANGED << scoring_vars, helper >>

\* The body of the try statement after the call, or its except clause.
RecordRow ==
  /\ batch.state = "auditing"
  /\ pc \in {"done", "raised"}
  /\ batch' = [batch EXCEPT
                 !.state = "loop",
                 !.cols[batch.idx] =
                   IF pc = "done"
                   THEN [filled |-> TRUE, audit |-> result,
                         audit_erreur |-> result.audit_erreur]
                   ELSE [@ EXCEPT !.audit_erreur = ExcText]]
  /\ UNCHANGED << audit_vars, scoring_vars, helper >>

\* df.to_csv(output_path) once the loop is over
WriteCsv ==
  /\ batch.state = "loop"
  /\ NextRow(batch.rows, batch.idx) = 0
  /\ batch' = [batch EXCEPT !.state = "written"]
  /\ UNCHANGED << audit_vars, scoring_vars, helper >>

NextBatch ==
  \/ StartAudit
  \/ FetchSkip
  \/ CrawlPage
  \/ Finish
  \/ AuditRaises
  \/ RecordRow
  \/ WriteCsv

SpecBatch == InitBatch /\ [][NextBatch]_vars

\* ================================================================ claims
NoDuplicates(s) == \A i, j \in 1..Len(s) : s[i] = s[j] => i = j

\* C1: in every state of a crawl, and in the returned result, the number of
\* successfully fetched pages is at most max_pages.
C1_PageBudget ==
  /\ pages_crawled <= max_pages
  /\ result.nb_pages <= max_pages

\* a crawl that stopped on its budget with URLs still waiting in the queue
C1_Witness ==
  /\ pc = "done"
  /\ max_pages >= 2
  /\ result.nb_pages = max_pages
  /\ queue # <<>>

\* C2: a URL is appended to the queue at most once, and no URL is passed
\* to the page fetch twice.
C2_EnqueuedOnce ==
  /\ NoDuplicates(enqueue_log)
  /\ NoDuplicates(fetch_log)

\* a finished crawl of several pages in which a page linked back to a URL
\* that was already visited
C2_Witness ==
  /\ pc = "done"
  /\ relinked
  /\ pages_crawled >= 2
  /\ Len(fetch_log) >= 3

\* the fields of a result other than audit_erreur are at their defaults
AllDefaultsBut(res, fields) ==
  \A f \in (DOMAIN ResultDefault) \ fields : res[f] = ResultDefault[f]

\* C3 as stated: a run that fetched no page returns an error string and
\* every other field at its initial default.
C3_ZeroPagesAllDefaults ==
  (pc = "done" /\ result.nb_pages = 0) =>
    /\ result.audit_erreur # None
    /\ AllDefaultsBut(result, {"audit_erreur"})

\* C3 amended: a run that fetched no page returns an error string and every
\* other field at its initial default, except has_robots_txt and
\* has_sitemap, which keep what the two probes made before the crawl found.
C3_ZeroPagesDefaultsButProbes ==
  (pc = "done" /\ result.nb_pages = 0) =>
    /\ result.audit_erreur # None
    /\ AllDefaultsBut(result, {"audit_erreur", "has_robots_txt", "has_sitemap"})

\* an audit whose entry page could not be fetched although the sitemap and
\* robots.txt probes succeeded
C3_Witness ==
  /\ pc = "done"
  /\ result.nb_pages = 0
  /\ Len(fetch_log) = 1
  /\ result.has_sitemap
  /\ result.has_robots_txt

\* the page behind the navigation candidate was fetched and held no date
\* and no article-shaped link
NavTargetThin ==
  \/ nav_blog_candidate \in thin_fetched
  \/ (verify_log.ran /\ verify_log.ok
      /\ verify_log.dates = 0 /\ verify_log.article_links = 0)

\* C4: when the navigation links to /blog and the /blog page holds no date
\* and no article-shaped link, the audit does not end with has_blog set
\* on account of that page.
C4_ThinNavBlogRejected ==
  (/\ pc = "done"
   /\ nav_blog_candidate = start \o <<"/", "blog">>
   /\ NavTargetThin)
  => ~(result.has_blog /\ result.blog_url = nav_blog_candidate)

BlogStatuses == {"absent", "présent", "actif", "semi-actif", "abandonné"}

\* C5: blog_status is always one of absent, présent, actif, semi-actif,
\* abandonné, during the audit and in the returned result.
C5_BlogStatusDomain ==
  /\ result.blog_status \in BlogStatuses
  /\ rerun.blog_status \in BlogStatuses

\* a returned result whose blog status was classified from a dated post
C5_Witness ==
  /\ pc = "done"
  /\ result.blog_status = "semi-actif"
  /\ result.derniere_maj_blog # NoDate

\* the parseable dates among a list of date strings, as day numbers
ParsedDays(dates) ==
  {ToDays(d[1], d[2], d[3]) : d \in {x \in Range(dates) : x[3] <= DaysInMonth(x[1], x[2])}}

\* C6: activite_status is actif only if a parseable date came from a blog
\* page; without one it is semi-actif when the latest date of the site is
\* less than 730 days old, abandonné when it is older, inconnu when the
\* site shows no date.
C6_ActivityCapped ==
  /\ result.activite_status = "actif" => ParsedDays(blog_dates) # {}
  /\ (pc = "done" /\ ParsedDays(blog_dates) = {}) =>
       result.activite_status =
         IF ParsedDays(all_dates) = {} THEN "inconnu"
         ELSE IF Now - SetMax(ParsedDays(all_dates)) < 730 THEN "semi-actif"
         ELSE "abandonné"

\* a site without blog dates whose latest date is less than a year old
C6_Witness ==
  /\ pc = "done"
  /\ ParsedDays(blog_dates) = {}
  /\ ParsedDays(all_dates) # {}
  /\ Now - SetMax(ParsedDays(all_dates)) < 365
  /\ result.activite_status = "semi-actif"

\* C7: every score written for a scored row lies between 1.0 and 10.0; a
\* raw sum above 10 gives 10.0 and a raw sum below 1 gives 1.0.
C7_ScoreClamped ==
  /\ \A i \in 1..Len(df) :
       df[i].scored =>
         /\ df[i].prospect_score >= 10
         /\ df[i].prospect_score <= 100
         /\ df[i].raw > 100 => df[i].prospect_score = 100
         /\ df[i].raw < 10 => df[i].prospect_score = 10
  /\ \A k \in 1..Len(report) : report[k].score >= 10 /\ report[k].score <= 100

\* a table with a row whose raw sum exceeds 10 and a row whose raw sum is
\* negative
C7_Witness ==
  /\ \E i \in 1..Len(df) : df[i].scored /\ df[i].raw > 100
  /\ \E i \in 1..Len(df) : df[i].scored /\ df[i].raw < 0

\* C8: the report holds exactly the rows with site_verifie true and
\* nb_pages > 0, each once.
C8_ReportRows ==
  spc = "done" =>
    /\ {report[k].index : k \in 1..Len(report)} =
         {i \in 1..Len(df) : df[i].site_verifie /\ df[i].nb_pages > 0}
    /\ NoDuplicates([k \in 1..Len(report) |-> report[k].index])

\* a report that keeps one row and leaves out an unverified row with pages
C8_Witness ==
  /\ spc = "done"
  /\ Len(report) = 1
  /\ \E i \in 1..Len(df) : ~df[i].site_verifie /\ df[i].nb_pages > 0

\* C9: the rows of the report are in non-increasing order of score.
C9_ReportSorted ==
  spc = "done" =>
    \A k \in 1..(Len(report) - 1) : report[k].score >= report[k + 1].score

\* a report whose first row came after its second row in the input table
C9_Witness ==
  /\ spc = "done"
  /\ Len(report) >= 2
  /\ report[1].score > report[2].score
  /\ report[1].index > report[2].index

\* C10: run twice on the same crawl data from the same instant, the
\* post-processing returns the same result, and the ages behind
\* blog_status and activite_status are taken at one instant.
C10_PostProcessDeterministic ==
  pc = "done" =>
    /\ result = rerun
    /\ \A i, j \in 1..Len(now_reads) : now_reads[i] = now_reads[j]

\* the non-empty titles of the parsed pages, and how many of them repeat an
\* earlier one
NonEmptyTitles == SelectSeq(all_titles, LAMBDA t : t # "")
RepeatedTitles == Len(NonEmptyTitles) - Cardinality(Range(NonEmptyTitles))

\* titles_dupliques and ratio_texte_html, in hundredths, lie in [0.0, 1.0]
RatiosInUnitInterval ==
  /\ result.titles_dupliques \in 0..100
  /\ result.ratio_texte_html \in 0..100

Returned(fn) == helper.fn = fn /\ helper.ret # "pending"

\* the class of a mean gap of total / n days, by the stated thresholds
ClassOfMean(total, n) ==
  IF total <= 14 * n THEN "hebdomadaire"
  ELSE IF total <= 45 * n THEN "mensuelle"
  ELSE IF total <= 100 * n THEN "trimestrielle"
  ELSE "rare"

\* the days between the earliest and the latest of the dates: the sum of
\* the gaps between consecutive dates of the sorted list
Span(dates) ==
  LET S == Range(dates)
  IN  SetMax(S) - (CHOOSE x \in S : \A y \in S : x <= y)

\* C12 as stated: _compute_publication_frequency returns None for fewer
\* than 2 dates and otherwise the class of the mean of the gaps between all
\* consecutive dates of the sorted list.
C12_FrequencyOfAllGaps ==
  Returned("_compute_publication_frequency") =>
    helper.ret = IF Len(helper.arg) < 2 THEN None
                 ELSE ClassOfMean(Span(helper.arg), Len(helper.arg) - 1)

\* C12 amended: _compute_publication_frequency returns None for fewer than
\* 2 dates or when all dates are the same day, and otherwise the class of
\* the mean of the positive gaps between consecutive dates of the sorted
\* list, the zero gaps between equal dates being left out of the mean.
C12_FrequencyOfPositiveGaps ==
  Returned("_compute_publication_frequency") =>
    helper.ret = IF Len(helper.arg) < 2 \/ Cardinality(Range(helper.arg)) < 2 THEN None
                 ELSE ClassOfMean(Span(helper.arg), Cardinality(Range(helper.arg)) - 1)

\* three dates, two of them equal, 15 days from first to last: the single
\* positive gap of 15 days gives 'mensuelle'
C12_Witness ==
  /\ Returned("_compute_publication_frequency")
  /\ Len(helper.arg) = 3
  /\ Cardinality(Range(helper.arg)) = 2
  /\ Span(helper.arg) = 15
  /\ helper.ret = "mensuelle"

\* C13: a list of two or more dates that are all the same day yields None.
C13_DuplicatesGiveNone ==
  (/\ Returned("_compute_publication_frequency")
   /\ Len(helper.arg) >= 2
   /\ Cardinality(Range(helper.arg)) = 1)
  => helper.ret = None

\* the call on three equal dates has returned
C13_Witness ==
  /\ Returned("_compute_publication_frequency")
  /\ helper.arg = <<7, 7, 7>>
  /\ helper.ret = None

\* the path of a parsed page is an excluded structural path or lies below one
ExcludedPath(u) ==
  LET path == UrlPath(start, u)
  IN  \E p \in EXCLUDED_FROM_EMPTY_COUNT :
        path = p \/ (Len(path) > Len(p) + 1 /\ SubSeq(path, 1, Len(p) + 1) = p \o <<"/">>)

\* C14: pages_vides counts exactly the parsed pages with fewer than 50
\* words whose path is neither an excluded structural path nor below one.
C14_EmptyPagesCounted ==
  result.pages_vides =
    Cardinality({i \in 1..Len(page_log) :
                   page_log[i].words < 50 /\ ~ExcludedPath(page_log[i].url)})

\* a 50-word home page, a 10-word /contact page and a 10-word /produits
\* page: one empty page
C14_Witness ==
  /\ pc = "done"
  /\ Len(page_log) = 3
  /\ page_log[1].words = 50
  /\ \E i, j \in 2..3 :
       /\ page_log[i].url = start \o <<"/", "contact">> /\ page_log[i].words = 10
       /\ page_log[j].url = start \o <<"/", "produits">> /\ page_log[j].words = 10
  /\ result.pages_vides = 1

\* the platforms in the stated order
PlatformOrder ==
  << "WordPress", "Wix", "Shopify", "Prestashop", "Webflow", "Squarespace",
     "Joomla", "Drupal" >>

\* the ranks in PlatformOrder of the platforms a signature of which is in html
PlatformHits(html) ==
  {k \in 1..Len(PlatformOrder) :
     \E e \in 1..Len(CMS_SIGNATURES) :
       CMS_SIGNATURES[e][1] = PlatformOrder[k] /\ CMS_SIGNATURES[e][2] \cap html # {}}

FirstPlatform(html) ==
  IF PlatformHits(html) = {} THEN None
  ELSE PlatformOrder[CHOOSE k \in PlatformHits(html) : \A j \in PlatformHits(html) : k <= j]

\* the parsed pages whose HTML holds a signature
DetectingPages == {i \in 1..Len(page_log) : PlatformHits(page_log[i].html) # {}}

\* C15: _detect_cms returns the first platform of the table order with a
\* signature in the HTML, None when there is none; during a crawl and in the
\* result the CMS is the one detected on the earliest parsed page on which
\* detection succeeds.
C15_FirstCmsWins ==
  /\ Returned("_detect_cms") => helper.ret = FirstPlatform(helper.arg)
  /\ cms_detected =
       IF DetectingPages = {} THEN None
       ELSE FirstPlatform(
              page_log[CHOOSE i \in DetectingPages : \A j \in DetectingPages : i <= j].html)
  /\ (pc = "done" => result.cms_detecte = cms_detected)

\* a page without signature, then a page with signatures of two platforms,
\* then a page on which another platform would be detected
C15_Witness ==
  /\ pc = "done"
  /\ Len(page_log) = 3
  /\ PlatformHits(page_log[1].html) = {}
  /\ Cardinality(PlatformHits(page_log[2].html)) = 2
  /\ FirstPlatform(page_log[3].html) # FirstPlatform(page_log[2].html)
  /\ PlatformHits(page_log[3].html) # {}
  /\ result.cms_detecte = "WordPress"

\* C16: the fetch loop eventually stops; when it has stopped the frontier is
\* empty or the number of fetched pages equals max_pages; and no fetch is
\* made once one of the two holds.
C16_CrawlTerminates ==
  /\ <>(pc = "done")
  /\ [](pc = "done" => (queue = <<>> \/ pages_crawled = max_pages))
  /\ [][(queue = <<>> \/ pages_crawled = max_pages) => fetch_log' = fetch_log]_vars

\* a crawl of two parsed pages and one failed fetch that stopped on an empty
\* frontier, the budget not used up
C16_Witness ==
  /\ pc = "done"
  /\ Len(fetch_log) = 3
  /\ pages_crawled = 2
  /\ pages_crawled < max_pages
  /\ queue = <<>>

\* a step that fetches a URL without a page being parsed
FailedFetchStep == fetch_log' # fetch_log /\ page_log' = page_log

\* C17: a fetch that is not a successful HTML response changes nothing but
\* the frontier, which loses its head; the loop goes on; and no URL is
\* fetched twice.
C17_FailedFetchOnlyDequeues ==
  /\ [][FailedFetchStep =>
          /\ queue' = Tail(queue)
          /\ pc' = "crawl"
          /\ UNCHANGED << pages_crawled, visited, result, all_titles, all_dates,
                          blog_dates, nav_blog_candidate, total_words,
                          total_html_bytes, total_text_bytes, cms_detected >>]_vars
  /\ []NoDuplicates(fetch_log)

\* a failed fetch between two parsed pages
C17_Witness ==
  /\ Len(fetch_log) = 3
  /\ pages_crawled = 2
  /\ max_pages = 2
  /\ Len(page_log) = 2
  /\ page_log[2].url = fetch_log[3]

\* C18: the parsed page that brings pages_crawled to max_pages leaves the
\* visited set as it is and adds nothing to the frontier, and its links that
\* were not visited before are never in the visited set.
C18_NoLinksAtBudget ==
  /\ [][(pages_crawled' # pages_crawled /\ pages_crawled' = max_pages) =>
          (visited' = visited /\ queue' = Tail(queue))]_vars
  /\ [](dropped_links \cap visited = {})

\* a finished crawl of several pages whose last page linked to URLs that no
\* earlier page had linked to
C18_Witness ==
  /\ pc = "done"
  /\ max_pages >= 2
  /\ pages_crawled = max_pages
  /\ dropped_links # {}

\* the URLs of the parsed pages that were flagged as blog pages
FlaggedUrls == {page_log[i].url : i \in {j \in 1..Len(page_log) : page_log[j].is_blog_page}}

\* C19: a blog_url, once set, is never replaced; while the loop runs a blog
\* is only ever detected on a parsed page; the scan of the visited set sets
\* blog_url only if no parsed page was flagged; the navigation candidate is
\* verified only if no parsed page was flagged and no visited URL holds a
\* blog pattern.
C19_BlogStrategyPriority ==
  /\ [][result.blog_url # NoUrl => result'.blog_url = result.blog_url]_vars
  /\ []((pc = "crawl" /\ result.has_blog) => result.blog_url \in FlaggedUrls)
  /\ []((pc = "done" /\ result.has_blog /\ result.blog_url \notin FlaggedUrls)
          => FlaggedUrls = {})
  /\ [](verify_log.ran => (FlaggedUrls = {} /\ BlogUrlsIn(visited) = {}))

\* no parsed page was flagged, the blog was found by the scan of the visited
\* set on a URL whose page was never parsed, and the navigation candidate,
\* a blog on another domain, was left unverified
C19_Witness ==
  /\ pc = "done"
  /\ result.has_blog
  /\ FlaggedUrls = {}
  /\ result.blog_url \in visited
  /\ nav_blog_candidate = ExternalBlog
  /\ ~verify_log.ran

\* a blog pattern occurs in the path of a URL of the audited site
PathHasBlogPattern(u) ==
  \E k \in 1..Len(BLOG_URL_PATTERNS) :
    Contains(Lower(UrlPath(start, u)), BLOG_URL_PATTERNS[k])

\* C20: a parsed page is flagged as a blog page, and its dates are counted as
\* blog dates, if and only if a blog pattern occurs in the path of its URL.
C20_FlaggedByPathOnly ==
  \A i \in 1..Len(page_log) :
    page_log[i].is_blog_page <=> PathHasBlogPattern(page_log[i].url)

\* C21: in the returned result, when no date collected on a flagged page can
\* be parsed, blog_status is 'présent' if has_blog is true and 'absent'
\* otherwise, and derniere_maj_blog and frequence_publication are empty;
\* otherwise blog_status is 'actif' when the most recent such date is less
\* than 365 days old, 'semi-actif' when less than 730, else 'abandonné'.
C21_BlogStatusFromBlogDates ==
  pc = "done" =>
    IF ParsedDays(blog_dates) = {}
    THEN /\ result.blog_status = IF result.has_blog THEN "présent" ELSE "absent"
         /\ result.derniere_maj_blog = NoDate
         /\ result.frequence_publication = None
    ELSE LET age == Now - SetMax(ParsedDays(blog_dates))
         IN  result.blog_status =
               IF age < 365 THEN "actif"
               ELSE IF age < 730 THEN "semi-actif"
               ELSE "abandonné"

\* two flagged pages, one with a date that cannot be parsed and one with a
\* post exactly 730 days old
C21_Witness ==
  /\ pc = "done"
  /\ Len(blog_dates) = 2
  /\ Cardinality(ParsedDays(blog_dates)) = 1
  /\ Now - SetMax(ParsedDays(blog_dates)) = 730
  /\ result.blog_status = "abandonné"

DatedBlogStatuses == {"actif", "semi-actif", "abandonné"}

\* C22: whenever the returned blog_status is actif, semi-actif or abandonné,
\* the returned activite_status equals it and derniere_date equals
\* derniere_maj_blog.
C22_ActivityFollowsBlog ==
  (pc = "done" /\ result.blog_status \in DatedBlogStatuses) =>
    /\ result.activite_status = result.blog_status
    /\ result.derniere_date = result.derniere_maj_blog

\* the blog term of the documented table, in tenths of a point
StatedBlogTerm(r) ==
  IF ~r.has_blog THEN 10
  ELSE IF r.blog_status = "abandonné" THEN 50
  ELSE IF r.blog_status = "semi-actif" THEN 20
  ELSE IF r.blog_status = "actif"
          /\ r.frequence_publication \in {"hebdomadaire", "mensuelle"} THEN -40
  ELSE 0

LastScored == df # <<>> /\ df[Len(df)].scored

\* C23: in the score of a verified row with nb_pages > 0 the blog term is
\* +5 for an abandoned blog whatever the age of its last post, +2 for a
\* semi-active one, +1 without a blog, -4 for an active blog published
\* weekly or monthly, and 0 otherwise.
C23_BlogTermTable ==
  LastScored => df[Len(df)].blog_term = StatedBlogTerm(row)

\* C24: two verified rows with nb_pages > 0 that agree on every listed signal
\* receive the same score, whatever their activite_status and their
\* derniere_maj_blog.
C24_ScoreIgnoresActivity ==
  \A i \in 1..Len(df) :
    df[i].scored => df[i].prospect_score = df[i].twin_score

FullTranches(count, nb_pages) == (5 * count) \div nb_pages

\* C25: each of pages_sans_meta_desc, pages_sans_h1 and pages_vides adds 0.5
\* per full tranche of 20 percentage points of count / nb_pages (3 pages of 5
\* give 1.5), and a duplicate-title ratio above 0.30 adds 0.5.
C25_SeoTermPerTranche ==
  LastScored =>
    df[Len(df)].seo_term =
      5 * FullTranches(row.pages_sans_meta_desc, row.nb_pages)
      + 5 * FullTranches(row.pages_sans_h1, row.nb_pages)
      + 5 * FullTranches(row.pages_vides, row.nb_pages)
      + (IF row.titles_dupliques > 30 THEN 5 ELSE 0)

\* C30: a verified row whose audit columns are empty gets no score and is
\* left out of the report, and the scoring of the other rows completes.
C30_EmptyAuditRowSkipped ==
  \A i \in 1..Len(df) :
    (df[i].site_verifie /\ df[i].nb_pages = NaN) =>
      /\ ~df[i].scored
      /\ spc # "raised"
      /\ \A k \in 1..Len(report) : report[k].index # i

LinksReturned == helper.fn = "_get_internal_links" /\ helper.ret # PendingLinks

\* two hrefs that differ only by a trailing slash or by a fragment
SameButSlashOrFragment(h1, h2) ==
  /\ h1 # h2
  /\ h1.scheme = h2.scheme
  /\ h1.netloc = h2.netloc
  /\ RStripSlash(h1.path) = RStripSlash(h2.path)

\* C26: every URL returned by _get_internal_links has the domain of the site
\* up to a 'www.' prefix, scheme http or https, no fragment, no trailing
\* slash and no binary-file extension at its end; two hrefs that differ only
\* by a trailing slash or a fragment yield a single entry.
C26_InternalLinksClean ==
  LinksReturned =>
    /\ \A u \in helper.ret :
         /\ u[1] \in {"http:", "https:"}
         /\ StripWww(SubSeq(u, 4, Len(u))) \in
              {helper.arg.base_domain \o p : p \in {RStripSlash(q) : q \in HrefPaths}}
         /\ "#top" \notin Range(u)
         /\ u[Len(u)] # "/"
         /\ LowerTok(u[Len(u)]) \notin BINARY_EXTENSIONS
    /\ \A h1, h2 \in helper.arg.hrefs :
         (SameButSlashOrFragment(h1, h2) /\ helper.arg.hrefs = {h1, h2})
           => Cardinality(helper.ret) <= 1

\* the depths of the pages fetched with success
FetchedDepths == {page_log[i].depth : i \in 1..Len(page_log)}

\* an iteration of the loop: the head of the queue is dequeued
Dequeues == fetch_log' # fetch_log

C29_CountersBounded ==
  /\ result.pages_sans_title + result.pages_title_court <= pages_crawled
  /\ result.pages_sans_h1 + result.pages_h1_multiple <= pages_crawled
  /\ \A n \in {result.pages_sans_meta_desc, result.pages_sans_canonical,
               result.pages_noindex, result.pages_vides} :
       /\ 0 <= n
       /\ n <= pages_crawled
       /\ pc = "done" => n <= result.nb_pages
  /\ pc = "done" =>
       /\ result.pages_sans_title + result.pages_title_court <= result.nb_pages
       /\ result.pages_sans_h1 + result.pages_h1_multiple <= result.nb_pages

\* every page lacks a title or has a short one, and both cases occur
C29_Witness ==
  /\ pc = "done"
  /\ result.nb_pages = 3
  /\ result.pages_sans_title > 0
  /\ result.pages_title_court > 0
  /\ result.pages_sans_title + result.pages_title_court = 3
  /\ result.pages_vides > 0

VerifiedRows == {i \in 1..Len(batch.rows) : batch.rows[i].site_verifie}

\* audit_site starts on a row
StartsAudit == batch'.idx # batch.idx

\* the locals of audit_site as a call on the URL of the current row alone
\* creates them
FreshAudit ==
  /\ start = RStripSlash(batch.rows[batch.idx].site_web)
  /\ max_pages = batch.max_pages
  /\ visited = {start}
  /\ queue = << <<start, 0>> >>
  /\ pages_crawled = 0
  /\ all_titles = <<>> /\ all_dates = <<>> /\ blog_dates = <<>>
  /\ nav_blog_candidate = NoUrl
  /\ cms_detected = None
  /\ total_words = 0 /\ total_html_bytes = 0 /\ total_text_bytes = 0
  /\ AllDefaultsBut(result, {"has_robots_txt", "has_sitemap"})

\* C27: run_seo_audit audits the verified rows and no other, each once and
\* in row order; an exception raised by an audit is written in audit_erreur
\* of that row, whose other columns stay empty, and the later verified rows
\* are audited all the same; the rows that are not verified keep every audit
\* column empty; each audit starts from the state that a call of audit_site
\* on that URL alone starts from, whatever was audited before.
C27_BatchAudit ==
  /\ [](/\ \A k \in 1..Len(batch.order) :
             /\ batch.order[k] \in VerifiedRows
             /\ k > 1 => batch.order[k - 1] < batch.order[k]
        /\ batch.state = "written" => Range(batch.order) = VerifiedRows
        /\ \A i \in 1..Len(batch.rows) :
             /\ i \notin VerifiedRows => batch.cols[i] = EmptyCols
             /\ (i \in batch.raised /\ (batch.idx # i \/ batch.state # "auditing")) =>
                  batch.cols[i] = [EmptyCols EXCEPT !.audit_erreur = ExcText]
             /\ batch.cols[i].filled => i \in Range(batch.order) \ batch.raised)
  /\ [][StartsAudit => FreshAudit']_vars

\* the audit of the first row raised after one page, and the second row was
\* audited to its end and has its columns filled
C27_Witness ==
  /\ batch.state = "written"
  /\ Len(batch.rows) = 2
  /\ batch.raised = {1}
  /\ batch.order = <<1, 2>>
  /\ batch.cols[1].audit_erreur = ExcText
  /\ batch.cols[2].filled
  /\ batch.cols[2].audit.nb_pages = 2
====
